---- MODULE Spec2Model ----
(***************************************************************************)
(* A model of the two-endpoint forward proxy of main.go: the upstream      *)
(* specification parser, the two routers, the direct and the chained       *)
(* CONNECT handlers and the transfer relay.                                *)
(*                                                                         *)
(* Strings are sequences of one-character strings.  A request is handled   *)
(* by one goroutine whose position is pc[r]; an established tunnel has two *)
(* transfer goroutines, wk[r].c2o and wk[r].o2c.                           *)
(***************************************************************************)
EXTENDS Integers, Sequences, FiniteSets, TLC

\* ------------------------------------------------------------------ bounds
\* Longest upstream specification string of SpecParse.
MaxUrlLen == 7
\* Number of bytes each peer of a tunnel writes.
MaxData == 2

\* ----------------------------------------------------------------- strings
Alphabet == {"a", ":", "@"}

Strings(n) == UNION {[1..k -> Alphabet] : k \in 0..n}

\* The byte value of a character (ASCII).
Byte(c) ==
  CASE c = "a" -> 97
    [] c = "b" -> 98
    [] c = "h" -> 104
    [] c = ":" -> 58
    [] c = "@" -> 64

\* strings.Split(s, sep) for a one-character separator: the pieces of s between
\* the occurrences of sep, n+1 pieces for n occurrences.
RECURSIVE Split(_, _)
Split(s, sep) ==
  IF \A i \in 1..Len(s) : s[i] # sep
  THEN <<s>>
  ELSE LET i == CHOOSE k \in 1..Len(s) :
                  s[k] = sep /\ \A j \in 1..(k - 1) : s[j] # sep
       IN  <<SubSeq(s, 1, i - 1)>> \o Split(SubSeq(s, i + 1, Len(s)), sep)

\* A plausible slip of parseProxyURL: the two pieces taken the wrong way round.
parseProxyURLSwapped(url) ==
  LET data == Split(url, "@")
  IN  [server |-> IF Len(data) = 2 THEN data[1]
                  ELSE IF Len(data) = 1 THEN data[1] ELSE <<>>,
       user   |-> IF Len(data) = 2 THEN data[2] ELSE <<>>,
       err    |-> "nil"]

\* parseProxyURL: (server, user, err).  Two pieces: user@server; one piece:
\* server alone; any other number of pieces leaves both empty.  err is always nil.
parseProxyURL(url) ==
  LET data == Split(url, "@")
  IN  [server |-> IF Len(data) = 2 THEN data[2]
                  ELSE IF Len(data) = 1 THEN data[1] ELSE <<>>,
       user   |-> IF Len(data) = 2 THEN data[1] ELSE <<>>,
       err    |-> "nil"]

\* The alphabet of base64.StdEncoding.
B64 == << "A","B","C","D","E","F","G","H","I","J","K","L","M","N","O","P",
          "Q","R","S","T","U","V","W","X","Y","Z","a","b","c","d","e","f",
          "g","h","i","j","k","l","m","n","o","p","q","r","s","t","u","v",
          "w","x","y","z","0","1","2","3","4","5","6","7","8","9","+","/" >>

\* base64.StdEncoding.EncodeToString: three bytes make four characters, a
\* remainder of one or two bytes is padded with "=".
RECURSIVE EncodeToString(_)
EncodeToString(src) ==
  IF Len(src) = 0 THEN <<>>
  ELSE IF Len(src) >= 3 THEN
    LET val == Byte(src[1]) * 65536 + Byte(src[2]) * 256 + Byte(src[3])
    IN  << B64[(val \div 262144) + 1], B64[((val \div 4096) % 64) + 1],
           B64[((val \div 64) % 64) + 1], B64[(val % 64) + 1] >>
        \o EncodeToString(SubSeq(src, 4, Len(src)))
  ELSE IF Len(src) = 2 THEN
    LET val == Byte(src[1]) * 65536 + Byte(src[2]) * 256
    IN  << B64[(val \div 262144) + 1], B64[((val \div 4096) % 64) + 1],
           B64[((val \div 64) % 64) + 1], "=" >>
  ELSE
    LET val == Byte(src[1]) * 65536
    IN  << B64[(val \div 262144) + 1], B64[((val \div 4096) % 64) + 1], "=", "=" >>

\* A plausible slip: the header is added whether or not there are credentials.
authorizationHeaderAlways(auth) ==
  << [name |-> "Proxy-Authorization", scheme |-> "Basic",
      value |-> EncodeToString(auth)] >>

\* authorizationHeader: no line for empty credentials, else the line
\* "Proxy-Authorization: Basic " + base64(auth).
authorizationHeader(auth) ==
  IF auth # <<>>
  THEN << [name |-> "Proxy-Authorization", scheme |-> "Basic",
           value |-> EncodeToString(auth)] >>
  ELSE <<>>

\* connectRequest: "CONNECT host HTTP/1.1", "Host: host", the optional
\* authorization line, and the blank line that ends the head.
connectRequest(host, auth) ==
  << [name |-> "CONNECT", scheme |-> "HTTP/1.1", value |-> host],
     [name |-> "Host", scheme |-> "", value |-> host] >>
  \o authorizationHeader(auth)
  \o << [name |-> "", scheme |-> "", value |-> <<>>] >>

\* ------------------------------------------------------------------- state
\* The identifiers a request may have.
ReqIds == {1, 2}

Hosts == {<<"a", ":", "a">>, <<"h", ":", "a">>}
Methods == {"CONNECT", "GET"}
Endpoints == {"direct", "proxy"}

\* The upstream specifications of Spec: none, an address, credentials and an
\* address, credentials holding an "@", and credentials without an address.
ProxyURLs ==
  { <<>>,
    <<"h", ":", "a">>,
    <<"a", ":", "b", "@", "h", ":", "a">>,
    <<"a", "@", "h", ":", "a">>,
    <<"a", "@", "b", "@", "h", ":", "a">>,
    <<"a", ":", "b", "@">> }

\* What an upstream may answer to CONNECT: a status line, or bytes that are no
\* HTTP response.
UpstreamAnswers ==
  { [kind |-> "status", code |-> 200], [kind |-> "status", code |-> 407],
    [kind |-> "status", code |-> 502], [kind |-> "garbage", code |-> 0] }
NoAnswer == [kind |-> "none", code |-> 0]

\* The i-th byte the client, and the outbound peer, of request r writes into
\* its tunnel: every byte of a run is different from every other.
ClientByte(r, i) == (r - 1) * 2 * MaxData + i
OutByte(r, i) == (r - 1) * 2 * MaxData + MaxData + i

VARIABLES
  proxyURL,    \* the -proxy-url flag
  reqs,        \* the requests that arrive in this run
  pc,          \* pc[r]: where the handler goroutine of r stands
  req,         \* req[r]: endpoint, method, host, and whether w is a Hijacker
  handledBy,   \* handledBy[r]: the handlers the router has called for r
  parsed,      \* parsed[r]: proxyStr, auth, err of the chained handler
  w,           \* w[r]: the response writer: status sent, WriteHeader calls
  dials,       \* dials[r]: number of outbound dials
  dialErr,     \* dialErr[r]: "none", "nil" or "err"
  hijack,      \* hijack[r]: "none", "unsupported", "failed" or "ok"
  clientConn,  \* clientConn[r]: "server", "hijacked" or "closed"
  outConn,     \* outConn[r]: "none", "open" or "closed"
  upReq,       \* upReq[r]: the request head the upstream has received
  upResp,      \* upResp[r]: the answer the upstream has written
  resp,        \* resp[r]: the answer the chained handler has read
  cPeer,       \* cPeer[r]: the client's end, "open" or "closed"
  oPeer,       \* oPeer[r]: the outbound peer's end, "open" or "closed"
  c2o,         \* c2o[r]: client to outbound: sent, bufr, inb, seen
  o2c,         \* o2c[r]: outbound to client: sent, bufr, inb, seen
  wk           \* wk[r]: the two transfer goroutines

handlerVars == <<pc, handledBy, parsed, w, dials, dialErr, hijack, resp>>
connVars == <<clientConn, outConn>>
peerVars == <<upReq, upResp, cPeer, oPeer>>
streamVars == <<c2o, o2c>>
vars == <<proxyURL, reqs, req, handlerVars, connVars, peerVars, streamVars, wk>>

NoReq == [endpoint |-> "", method |-> "", host |-> <<>>, hijacker |-> FALSE]
NoParse == [server |-> <<>>, user |-> <<>>, err |-> "none"]
NoStream == [sent |-> 0, bufr |-> <<>>, inb |-> <<>>, seen |-> <<>>]

InitRequests(ids) ==
  /\ reqs = ids
  /\ pc = [r \in ReqIds |-> "idle"]
  /\ req = [r \in ReqIds |-> NoReq]
  /\ handledBy = [r \in ReqIds |-> {}]
  /\ parsed = [r \in ReqIds |-> NoParse]
  /\ w = [r \in ReqIds |-> [status |-> 0, calls |-> <<>>]]
  /\ dials = [r \in ReqIds |-> 0]
  /\ dialErr = [r \in ReqIds |-> "none"]
  /\ hijack = [r \in ReqIds |-> "none"]
  /\ clientConn = [r \in ReqIds |-> "server"]
  /\ outConn = [r \in ReqIds |-> "none"]
  /\ upReq = [r \in ReqIds |-> <<>>]
  /\ upResp = [r \in ReqIds |-> NoAnswer]
  /\ resp = [r \in ReqIds |-> NoAnswer]
  /\ cPeer = [r \in ReqIds |-> "open"]
  /\ oPeer = [r \in ReqIds |-> "open"]
  /\ c2o = [r \in ReqIds |-> NoStream]
  /\ o2c = [r \in ReqIds |-> NoStream]
  /\ wk = [r \in ReqIds |-> [c2o |-> "none", o2c |-> "none"]]

\* After flag.Parse and ListenAndServe: the flag is set, one request is to come.
Init ==
  /\ proxyURL \in ProxyURLs
  /\ InitRequests({1})

\* ResponseWriter.WriteHeader: the first status is the one sent, a later call
\* changes nothing the client sees.
WriteHeader(wr, code) ==
  [status |-> IF wr.status = 0 THEN code ELSE wr.status,
   calls  |-> Append(wr.calls, code)]

\* http.Error: sets the status through WriteHeader and writes the message.
httpError(wr, code) == WriteHeader(wr, code)

\* ----------------------------------------------------------------- routers
\* The server has read the head of a request on one of the two listeners.
Accept(r) ==
  /\ r \in reqs
  /\ pc[r] = "idle"
  /\ \E e \in Endpoints, m \in Methods, h \in Hosts, hj \in BOOLEAN :
       req' = [req EXCEPT ![r] = [endpoint |-> e, method |-> m, host |-> h,
                                  hijacker |-> hj]]
  /\ pc' = [pc EXCEPT ![r] = "route"]
  /\ UNCHANGED <<proxyURL, reqs, handledBy, parsed, w, dials, dialErr, hijack,
                 resp, connVars, peerVars, streamVars, wk>>

\* The server has read the head of a CONNECT request on the chained listener,
\* with a response writer that is a Hijacker; requests arrive in the order of
\* their identifiers.
AcceptChained(r) ==
  /\ r \in reqs
  /\ pc[r] = "idle"
  /\ \A q \in reqs : q < r => pc[q] # "idle"
  /\ req' = [req EXCEPT ![r] = [endpoint |-> "proxy", method |-> "CONNECT",
                                host |-> <<"a", ":", "a">>, hijacker |-> TRUE]]
  /\ pc' = [pc EXCEPT ![r] = "route"]
  /\ UNCHANGED <<proxyURL, reqs, handledBy, parsed, w, dials, dialErr, hijack,
                 resp, connVars, peerVars, streamVars, wk>>

\* A plausible slip: the direct router calling the chained tunnel handler.
directHandlerCrossed(method) ==
  IF method = "CONNECT" THEN "handleProxyTunneling" ELSE "handleDirectHTTP"

\* The handler the router of the chained listener calls.
proxyHandler(method) ==
  IF method = "CONNECT" THEN "handleProxyTunneling" ELSE "handleProxyHTTP"

\* The handler the router of the direct listener calls.
directHandler(method) ==
  IF method = "CONNECT" THEN "handleDirectTunneling" ELSE "handleDirectHTTP"

\* The first statement of a handler.
Entry(h) ==
  CASE h = "handleProxyTunneling" -> "p_parse"
    [] h = "handleDirectTunneling" -> "d_dial"
    [] h = "handleProxyHTTP" -> "p_forward"
    [] h = "handleDirectHTTP" -> "d_forward"

ProxyRouter(r) ==
  /\ pc[r] = "route"
  /\ req[r].endpoint = "proxy"
  /\ handledBy' = [handledBy EXCEPT ![r] = @ \cup {proxyHandler(req[r].method)}]
  /\ pc' = [pc EXCEPT ![r] = Entry(proxyHandler(req[r].method))]
  /\ UNCHANGED <<proxyURL, reqs, req, parsed, w, dials, dialErr, hijack, resp,
                 connVars, peerVars, streamVars, wk>>

DirectRouter(r) ==
  /\ pc[r] = "route"
  /\ req[r].endpoint = "direct"
  /\ handledBy' = [handledBy EXCEPT ![r] = @ \cup {directHandler(req[r].method)}]
  /\ pc' = [pc EXCEPT ![r] = Entry(directHandler(req[r].method))]
  /\ UNCHANGED <<proxyURL, reqs, req, parsed, w, dials, dialErr, hijack, resp,
                 connVars, peerVars, streamVars, wk>>

\* handleProxyHTTP and handleDirectHTTP hand the request to a reverse proxy of
\* net/http/httputil; the model keeps only that the handler ran and returned.
ProxyHTTP(r) ==
  /\ pc[r] = "p_forward"
  /\ pc' = [pc EXCEPT ![r] = "done"]
  /\ UNCHANGED <<proxyURL, reqs, req, handledBy, parsed, w, dials, dialErr,
                 hijack, resp, connVars, peerVars, streamVars, wk>>

DirectHTTP(r) ==
  /\ pc[r] = "d_forward"
  /\ pc' = [pc EXCEPT ![r] = "done"]
  /\ UNCHANGED <<proxyURL, reqs, req, handledBy, parsed, w, dials, dialErr,
                 hijack, resp, connVars, peerVars, streamVars, wk>>

\* ------------------------------------------------------------ net, peers
\* What net.Dial can return for an address: an empty address is refused without
\* a connection attempt, any other may connect or fail.
DialOutcomes(addr) == IF addr = <<>> THEN {"err"} ELSE {"nil", "err"}

\* --------------------------------------------------- handleProxyTunneling
\* A plausible slip: the resolver storing the address it found back into the
\* package variable.
ProxyParseStores(r) ==
  /\ pc[r] = "p_parse"
  /\ LET res == parseProxyURL(proxyURL)
     IN  /\ parsed' = [parsed EXCEPT ![r] = res]
         /\ proxyURL' = res.server
         /\ IF res.err # "nil"
            THEN /\ w' = [w EXCEPT ![r] = httpError(@, 500)]
                 /\ pc' = [pc EXCEPT ![r] = "done"]
            ELSE /\ w' = w
                 /\ pc' = [pc EXCEPT ![r] = "p_dial"]
  /\ UNCHANGED <<reqs, req, handledBy, dials, dialErr, hijack, resp,
                 connVars, peerVars, streamVars, wk>>

\* l.63-67: resolve the upstream; a parse error answers 500.
ProxyParse(r) ==
  /\ pc[r] = "p_parse"
  /\ LET res == parseProxyURL(proxyURL)
     IN  /\ parsed' = [parsed EXCEPT ![r] = res]
         /\ IF res.err # "nil"
            THEN /\ w' = [w EXCEPT ![r] = httpError(@, 500)]
                 /\ pc' = [pc EXCEPT ![r] = "done"]
            ELSE /\ w' = w
                 /\ pc' = [pc EXCEPT ![r] = "p_dial"]
  /\ UNCHANGED <<proxyURL, reqs, req, handledBy, dials, dialErr, hijack, resp,
                 connVars, peerVars, streamVars, wk>>

\* A plausible slip: a failed dial of the upstream tried a second time.
ProxyDialRetry(r) ==
  /\ pc[r] = "p_dial"
  /\ dials' = [dials EXCEPT ![r] = @ + 1]
  /\ \E err \in DialOutcomes(parsed[r].server) :
       /\ dialErr' = [dialErr EXCEPT ![r] = err]
       /\ IF err # "nil"
          THEN /\ w' = IF dials[r] = 0 THEN w ELSE [w EXCEPT ![r] = httpError(@, 503)]
               /\ pc' = [pc EXCEPT ![r] = IF dials[r] = 0 THEN "p_dial" ELSE "done"]
               /\ outConn' = outConn
          ELSE /\ w' = w
               /\ pc' = [pc EXCEPT ![r] = "p_send"]
               /\ outConn' = [outConn EXCEPT ![r] = "open"]
  /\ UNCHANGED <<proxyURL, reqs, req, handledBy, parsed, hijack, resp,
                 clientConn, peerVars, streamVars, wk>>

\* l.70-74: one dial of the upstream; a failure answers 503.
ProxyDial(r) ==
  /\ pc[r] = "p_dial"
  /\ dials' = [dials EXCEPT ![r] = @ + 1]
  /\ \E err \in DialOutcomes(parsed[r].server) :
       /\ dialErr' = [dialErr EXCEPT ![r] = err]
       /\ IF err # "nil"
          THEN /\ w' = [w EXCEPT ![r] = httpError(@, 503)]
               /\ pc' = [pc EXCEPT ![r] = "done"]
               /\ outConn' = outConn
          ELSE /\ w' = w
               /\ pc' = [pc EXCEPT ![r] = "p_send"]
               /\ outConn' = [outConn EXCEPT ![r] = "open"]
  /\ UNCHANGED <<proxyURL, reqs, req, handledBy, parsed, hijack, resp,
                 clientConn, peerVars, streamVars, wk>>

\* A plausible slip: the CONNECT head naming the upstream's own address.
ProxySendUpstreamHost(r) ==
  /\ pc[r] = "p_send"
  /\ upReq' = [upReq EXCEPT ![r] =
                 IF oPeer[r] = "open"
                 THEN connectRequest(parsed[r].server, parsed[r].user)
                 ELSE @]
  /\ pc' = [pc EXCEPT ![r] = "p_read"]
  /\ UNCHANGED <<proxyURL, reqs, req, handledBy, parsed, w, dials, dialErr,
                 hijack, resp, connVars, upResp, cPeer, oPeer, streamVars, wk>>

\* l.77-85: build the CONNECT head and write it to the upstream; the result of
\* the write is not looked at.
ProxySend(r) ==
  /\ pc[r] = "p_send"
  /\ upReq' = [upReq EXCEPT ![r] =
                 IF oPeer[r] = "open"
                 THEN connectRequest(req[r].host, parsed[r].user)
                 ELSE @]
  /\ pc' = [pc EXCEPT ![r] = "p_read"]
  /\ UNCHANGED <<proxyURL, reqs, req, handledBy, parsed, w, dials, dialErr,
                 hijack, resp, connVars, upResp, cPeer, oPeer, streamVars, wk>>

\* A plausible slip: every answer other than 200 reported as 503.
ProxyReadAs503(r) ==
  /\ pc[r] = "p_read"
  /\ upResp[r].kind # "none" \/ oPeer[r] = "closed"
  /\ IF upResp[r].kind = "status"
     THEN /\ resp' = [resp EXCEPT ![r] = upResp[r]]
          /\ o2c' = [o2c EXCEPT ![r].bufr = @ \o o2c[r].inb, ![r].inb = <<>>]
          /\ IF upResp[r].code # 200
             THEN /\ w' = [w EXCEPT ![r] = httpError(@, 503)]
                  /\ pc' = [pc EXCEPT ![r] = "done"]
             ELSE /\ w' = w
                  /\ pc' = [pc EXCEPT ![r] = "p_ok"]
     ELSE /\ resp' = [resp EXCEPT ![r] = [kind |-> "err", code |-> 0]]
          /\ o2c' = o2c
          /\ w' = [w EXCEPT ![r] = httpError(@, 503)]
          /\ pc' = [pc EXCEPT ![r] = "done"]
  /\ UNCHANGED <<proxyURL, reqs, req, handledBy, parsed, dials, dialErr, hijack,
                 connVars, peerVars, c2o, wk>>

\* A plausible slip: no return behind the http.Error of an unreadable answer.
ProxyReadNoReturn(r) ==
  /\ pc[r] = "p_read"
  /\ upResp[r].kind # "none" \/ oPeer[r] = "closed"
  /\ IF upResp[r].kind = "status"
     THEN /\ resp' = [resp EXCEPT ![r] = upResp[r]]
          /\ o2c' = [o2c EXCEPT ![r].bufr = @ \o o2c[r].inb, ![r].inb = <<>>]
          /\ IF upResp[r].code # 200
             THEN /\ w' = [w EXCEPT ![r] = httpError(@, upResp[r].code)]
                  /\ pc' = [pc EXCEPT ![r] = "done"]
             ELSE /\ w' = w
                  /\ pc' = [pc EXCEPT ![r] = "p_ok"]
     ELSE /\ resp' = [resp EXCEPT ![r] = [kind |-> "err", code |-> 0]]
          /\ o2c' = o2c
          /\ w' = [w EXCEPT ![r] = httpError(@, 503)]
          /\ pc' = [pc EXCEPT ![r] = "p_ok"]
  /\ UNCHANGED <<proxyURL, reqs, req, handledBy, parsed, dials, dialErr, hijack,
                 connVars, peerVars, c2o, wk>>

\* l.86-94: http.ReadResponse on a new bufio.Reader over proxyConn.  The read
\* blocks until the upstream has answered or closed.  The reader takes what the
\* socket holds, the head and the bytes behind it, and is dropped afterwards.
\* An unreadable answer gives 503, a status other than 200 is passed on.
ProxyRead(r) ==
  /\ pc[r] = "p_read"
  /\ upResp[r].kind # "none" \/ oPeer[r] = "closed"
  /\ IF upResp[r].kind = "status"
     THEN /\ resp' = [resp EXCEPT ![r] = upResp[r]]
          /\ o2c' = [o2c EXCEPT ![r].bufr = @ \o o2c[r].inb, ![r].inb = <<>>]
          /\ IF upResp[r].code # 200
             THEN /\ w' = [w EXCEPT ![r] = httpError(@, upResp[r].code)]
                  /\ pc' = [pc EXCEPT ![r] = "done"]
             ELSE /\ w' = w
                  /\ pc' = [pc EXCEPT ![r] = "p_ok"]
     ELSE /\ resp' = [resp EXCEPT ![r] = [kind |-> "err", code |-> 0]]
          /\ o2c' = o2c
          /\ w' = [w EXCEPT ![r] = httpError(@, 503)]
          /\ pc' = [pc EXCEPT ![r] = "done"]
  /\ UNCHANGED <<proxyURL, reqs, req, handledBy, parsed, dials, dialErr, hijack,
                 connVars, peerVars, c2o, wk>>

\* l.97: w.WriteHeader(http.StatusOK).
ProxyWriteOK(r) ==
  /\ pc[r] = "p_ok"
  /\ w' = [w EXCEPT ![r] = WriteHeader(@, 200)]
  /\ pc' = [pc EXCEPT ![r] = "p_hijack"]
  /\ UNCHANGED <<proxyURL, reqs, req, handledBy, parsed, dials, dialErr, hijack,
                 resp, connVars, peerVars, streamVars, wk>>

\* l.100-109 and l.127-136: the type assertion and the Hijack call.  Without a
\* Hijacker http.Error is called with 500, on a failing Hijack with 503; on
\* success the connection is the handler's, and the buffered reader that
\* Hijack returns with it is dropped.
HijackStep(r, next) ==
  /\ IF ~req[r].hijacker
     THEN /\ hijack' = [hijack EXCEPT ![r] = "unsupported"]
          /\ w' = [w EXCEPT ![r] = httpError(@, 500)]
          /\ pc' = [pc EXCEPT ![r] = "done"]
          /\ clientConn' = clientConn
     ELSE \E err \in {"nil", "err"} :
            IF err # "nil"
            THEN /\ hijack' = [hijack EXCEPT ![r] = "failed"]
                 /\ w' = [w EXCEPT ![r] = httpError(@, 503)]
                 /\ pc' = [pc EXCEPT ![r] = "done"]
                 /\ clientConn' = clientConn
            ELSE /\ hijack' = [hijack EXCEPT ![r] = "ok"]
                 /\ w' = w
                 /\ pc' = [pc EXCEPT ![r] = next]
                 /\ clientConn' = [clientConn EXCEPT ![r] = "hijacked"]
  /\ UNCHANGED <<proxyURL, reqs, req, handledBy, parsed, dials, dialErr, resp,
                 outConn, peerVars, streamVars, wk>>

ProxyHijack(r) ==
  /\ pc[r] = "p_hijack"
  /\ HijackStep(r, "p_go1")

\* go transfer(...): the goroutine of direction d starts.
Go(r, d, next) ==
  /\ wk' = [wk EXCEPT ![r][d] = "copy"]
  /\ pc' = [pc EXCEPT ![r] = next]
  /\ UNCHANGED <<proxyURL, reqs, req, handledBy, parsed, w, dials, dialErr,
                 hijack, resp, connVars, peerVars, streamVars>>

\* l.114: go transfer(clientConn, proxyConn).
ProxyGo1(r) ==
  /\ pc[r] = "p_go1"
  /\ Go(r, "o2c", "p_go2")

\* A plausible slip: the second goroutine started with the arguments of the
\* first, go transfer(clientConn, proxyConn) twice.
ProxyGo2Same(r) ==
  /\ pc[r] = "p_go2"
  /\ Go(r, "o2c", "done")

\* l.115: go transfer(proxyConn, clientConn).
ProxyGo2(r) ==
  /\ pc[r] = "p_go2"
  /\ Go(r, "c2o", "done")

\* -------------------------------------------------- handleDirectTunneling
\* A plausible slip: no return behind the http.Error of a failed dial.
DirectDialNoReturn(r) ==
  /\ pc[r] = "d_dial"
  /\ dials' = [dials EXCEPT ![r] = @ + 1]
  /\ \E err \in DialOutcomes(req[r].host) :
       /\ dialErr' = [dialErr EXCEPT ![r] = err]
       /\ pc' = [pc EXCEPT ![r] = "d_ok"]
       /\ IF err # "nil"
          THEN /\ w' = [w EXCEPT ![r] = httpError(@, 503)]
               /\ outConn' = outConn
          ELSE /\ w' = w
               /\ outConn' = [outConn EXCEPT ![r] = "open"]
  /\ UNCHANGED <<proxyURL, reqs, req, handledBy, parsed, hijack, resp,
                 clientConn, peerVars, streamVars, wk>>

\* l.121-125: one dial of the destination, bounded by 10 s; a failure answers 503.
DirectDial(r) ==
  /\ pc[r] = "d_dial"
  /\ dials' = [dials EXCEPT ![r] = @ + 1]
  /\ \E err \in DialOutcomes(req[r].host) :
       /\ dialErr' = [dialErr EXCEPT ![r] = err]
       /\ IF err # "nil"
          THEN /\ w' = [w EXCEPT ![r] = httpError(@, 503)]
               /\ pc' = [pc EXCEPT ![r] = "done"]
               /\ outConn' = outConn
          ELSE /\ w' = w
               /\ pc' = [pc EXCEPT ![r] = "d_ok"]
               /\ outConn' = [outConn EXCEPT ![r] = "open"]
  /\ UNCHANGED <<proxyURL, reqs, req, handledBy, parsed, hijack, resp,
                 clientConn, peerVars, streamVars, wk>>

\* l.126: w.WriteHeader(http.StatusOK).
DirectWriteOK(r) ==
  /\ pc[r] = "d_ok"
  /\ w' = [w EXCEPT ![r] = WriteHeader(@, 200)]
  /\ pc' = [pc EXCEPT ![r] = "d_hijack"]
  /\ UNCHANGED <<proxyURL, reqs, req, handledBy, parsed, dials, dialErr, hijack,
                 resp, connVars, peerVars, streamVars, wk>>

DirectHijack(r) ==
  /\ pc[r] = "d_hijack"
  /\ HijackStep(r, "d_go1")

\* l.139: go transfer(destConn, clientConn).
DirectGo1(r) ==
  /\ pc[r] = "d_go1"
  /\ Go(r, "c2o", "d_go2")

\* l.140: go transfer(clientConn, destConn).
DirectGo2(r) ==
  /\ pc[r] = "d_go2"
  /\ Go(r, "o2c", "done")

\* ---------------------------------------------------------------- transfer
Dirs == {"c2o", "o2c"}

\* The stream of a direction, the socket it reads, the socket it writes, and the
\* peers behind them.
Stream(r, d) == IF d = "c2o" THEN c2o[r] ELSE o2c[r]
SrcOpen(r, d) == IF d = "c2o" THEN clientConn[r] = "hijacked" ELSE outConn[r] = "open"
DstOpen(r, d) == IF d = "c2o" THEN outConn[r] = "open" ELSE clientConn[r] = "hijacked"
SrcPeer(r, d) == IF d = "c2o" THEN cPeer[r] ELSE oPeer[r]
DstPeer(r, d) == IF d = "c2o" THEN oPeer[r] ELSE cPeer[r]

\* What a write to a socket can return: a peer that has closed may or may not
\* have made it fail already.
WriteOutcomes(peer) == IF peer = "open" THEN {"nil"} ELSE {"nil", "err"}

\* A plausible slip: the sockets kept in package variables instead of the
\* handler's locals, so that a write goes to the socket of the latest request
\* that has one open.
TransferCopyShared(r, d) ==
  /\ wk[r][d] = "copy"
  /\ SrcOpen(r, d)
  /\ DstOpen(r, d)
  /\ Stream(r, d).inb # <<>>
  /\ LET st == Stream(r, d)
         tgt == CHOOSE q \in reqs :
                  /\ DstOpen(q, d)
                  /\ \A p \in reqs : DstOpen(p, d) => p <= q
     IN  IF d = "c2o"
         THEN /\ c2o' = [c2o EXCEPT ![r].inb = <<>>, ![tgt].seen = @ \o st.inb]
              /\ o2c' = o2c
         ELSE /\ o2c' = [o2c EXCEPT ![r].inb = <<>>, ![tgt].seen = @ \o st.inb]
              /\ c2o' = c2o
  /\ UNCHANGED <<proxyURL, reqs, req, handlerVars, peerVars, wk, connVars>>

\* l.162: one round of io.Copy: read what the source socket holds and write it to
\* the destination; a failed write ends the copy and runs source.Close().
TransferCopy(r, d) ==
  /\ wk[r][d] = "copy"
  /\ SrcOpen(r, d)
  /\ DstOpen(r, d)
  /\ Stream(r, d).inb # <<>>
  /\ \E err \in WriteOutcomes(DstPeer(r, d)) :
       LET st == Stream(r, d)
           after == [st EXCEPT !.inb = <<>>,
                               !.seen = IF DstPeer(r, d) = "open"
                                        THEN @ \o st.inb ELSE @]
       IN  /\ IF d = "c2o"
              THEN c2o' = [c2o EXCEPT ![r] = after] /\ o2c' = o2c
              ELSE o2c' = [o2c EXCEPT ![r] = after] /\ c2o' = c2o
           /\ IF err = "nil"
              THEN UNCHANGED <<wk, connVars>>
              ELSE /\ wk' = [wk EXCEPT ![r][d] = "closing"]
                   /\ IF d = "c2o"
                      THEN clientConn' = [clientConn EXCEPT ![r] = "closed"]
                           /\ outConn' = outConn
                      ELSE outConn' = [outConn EXCEPT ![r] = "closed"]
                           /\ clientConn' = clientConn
  /\ UNCHANGED <<proxyURL, reqs, req, handlerVars, peerVars>>

\* A plausible slip: transfer handed the ResponseWriter and reporting the end
\* of the copy with http.Error.
TransferEndReports(r, d) ==
  /\ wk[r][d] = "copy"
  /\ \/ ~SrcOpen(r, d)
     \/ Stream(r, d).inb = <<>> /\ SrcPeer(r, d) = "closed"
     \/ Stream(r, d).inb # <<>> /\ ~DstOpen(r, d)
  /\ wk' = [wk EXCEPT ![r][d] = "closing"]
  /\ w' = [w EXCEPT ![r] = httpError(@, 502)]
  /\ IF d = "c2o"
     THEN clientConn' = [clientConn EXCEPT ![r] = "closed"] /\ outConn' = outConn
     ELSE outConn' = [outConn EXCEPT ![r] = "closed"] /\ clientConn' = clientConn
  /\ UNCHANGED <<proxyURL, reqs, req, pc, handledBy, parsed, dials, dialErr,
                 hijack, resp, peerVars, streamVars>>

\* l.161-162: io.Copy returns: the source is at its end, or one of the two
\* sockets has been closed by the other direction; then source.Close() runs.
TransferEnd(r, d) ==
  /\ wk[r][d] = "copy"
  /\ \/ ~SrcOpen(r, d)
     \/ Stream(r, d).inb = <<>> /\ SrcPeer(r, d) = "closed"
     \/ Stream(r, d).inb # <<>> /\ ~DstOpen(r, d)
  /\ wk' = [wk EXCEPT ![r][d] = "closing"]
  /\ IF d = "c2o"
     THEN clientConn' = [clientConn EXCEPT ![r] = "closed"] /\ outConn' = outConn
     ELSE outConn' = [outConn EXCEPT ![r] = "closed"] /\ clientConn' = clientConn
  /\ UNCHANGED <<proxyURL, reqs, req, handlerVars, peerVars, streamVars>>

\* A plausible slip: transfer without the deferred destination.Close().
TransferCloseMissing(r, d) ==
  /\ wk[r][d] = "closing"
  /\ wk' = [wk EXCEPT ![r][d] = "done"]
  /\ UNCHANGED <<proxyURL, reqs, req, handlerVars, peerVars, streamVars, connVars>>

\* l.160: the deferred destination.Close(), and transfer returns.
TransferClose(r, d) ==
  /\ wk[r][d] = "closing"
  /\ wk' = [wk EXCEPT ![r][d] = "done"]
  /\ IF d = "c2o"
     THEN outConn' = [outConn EXCEPT ![r] = "closed"] /\ clientConn' = clientConn
     ELSE clientConn' = [clientConn EXCEPT ![r] = "closed"] /\ outConn' = outConn
  /\ UNCHANGED <<proxyURL, reqs, req, handlerVars, peerVars, streamVars>>

\* ------------------------------------------------------------------- peers
\* The bytes a peer writes in a run: the MaxData bytes of a direction are
\* shared evenly by the requests of the run.
DataLimit == MaxData \div Cardinality(reqs)

\* The client writes its next byte behind its CONNECT head.  Until the hijack
\* the server reads the connection: a byte that reaches it then lands in the
\* server's buffered reader or waits in the socket.
ClientSend(r) ==
  /\ pc[r] # "idle"
  /\ req[r].method = "CONNECT"
  /\ cPeer[r] = "open"
  /\ clientConn[r] # "closed"
  /\ c2o[r].sent < DataLimit
  /\ \E buffered \in BOOLEAN :
       /\ buffered => clientConn[r] = "server" /\ c2o[r].inb = <<>>
       /\ c2o' = [c2o EXCEPT
                    ![r].sent = @ + 1,
                    ![r].bufr = IF buffered
                                THEN Append(@, ClientByte(r, c2o[r].sent + 1)) ELSE @,
                    ![r].inb = IF buffered
                               THEN @ ELSE Append(@, ClientByte(r, c2o[r].sent + 1))]
  /\ UNCHANGED <<proxyURL, reqs, req, handlerVars, connVars, peerVars, o2c, wk>>

\* The outbound peer writes its next byte: a destination once connected, an
\* upstream behind its 200 answer.
OutSend(r) ==
  /\ outConn[r] = "open"
  /\ oPeer[r] = "open"
  /\ handledBy[r] = {"handleProxyTunneling"} => upResp[r] = [kind |-> "status", code |-> 200]
  /\ o2c[r].sent < DataLimit
  /\ o2c' = [o2c EXCEPT ![r].sent = @ + 1,
                        ![r].inb = Append(@, OutByte(r, o2c[r].sent + 1))]
  /\ UNCHANGED <<proxyURL, reqs, req, handlerVars, connVars, peerVars, c2o, wk>>

\* The upstream answers the CONNECT head it has received.
UpstreamRespond(r) ==
  /\ outConn[r] = "open"
  /\ oPeer[r] = "open"
  /\ upReq[r] # <<>>
  /\ upResp[r] = NoAnswer
  /\ \E a \in UpstreamAnswers : upResp' = [upResp EXCEPT ![r] = a]
  /\ UNCHANGED <<proxyURL, reqs, req, handlerVars, connVars, upReq, cPeer, oPeer,
                 streamVars, wk>>

\* The client closes its end, or its connection fails.
ClientClose(r) ==
  /\ pc[r] # "idle"
  /\ cPeer[r] = "open"
  /\ clientConn[r] # "closed"
  /\ cPeer' = [cPeer EXCEPT ![r] = "closed"]
  /\ UNCHANGED <<proxyURL, reqs, req, handlerVars, connVars, upReq, upResp, oPeer,
                 streamVars, wk>>

\* The outbound peer closes its end, or its connection fails.
OutClose(r) ==
  /\ outConn[r] = "open"
  /\ oPeer[r] = "open"
  /\ oPeer' = [oPeer EXCEPT ![r] = "closed"]
  /\ UNCHANGED <<proxyURL, reqs, req, handlerVars, connVars, upReq, upResp, cPeer,
                 streamVars, wk>>

\* ---------------------------------------------------------- specifications
HandlerStep(r) ==
  \/ ProxyRouter(r) \/ DirectRouter(r) \/ ProxyHTTP(r) \/ DirectHTTP(r)
  \/ ProxyParse(r) \/ ProxyDial(r) \/ ProxySend(r) \/ ProxyRead(r)
  \/ ProxyWriteOK(r) \/ ProxyHijack(r) \/ ProxyGo1(r) \/ ProxyGo2(r)
  \/ DirectDial(r) \/ DirectWriteOK(r) \/ DirectHijack(r)
  \/ DirectGo1(r) \/ DirectGo2(r)

TransferStep(r) ==
  \E d \in Dirs : TransferCopy(r, d) \/ TransferEnd(r, d) \/ TransferClose(r, d)

PeerStep(r) ==
  \/ Accept(r) \/ ClientSend(r) \/ OutSend(r) \/ UpstreamRespond(r)
  \/ ClientClose(r) \/ OutClose(r)

Next == \E r \in ReqIds : HandlerStep(r) \/ TransferStep(r) \/ PeerStep(r)

Spec == Init /\ [][Next]_vars

\* Goroutines that can run do run; the peers are under no obligation.
FairSpec ==
  /\ Spec
  /\ \A r \in ReqIds : WF_vars(HandlerStep(r))
  /\ \A r \in ReqIds : \A d \in Dirs :
       WF_vars(TransferCopy(r, d) \/ TransferEnd(r, d) \/ TransferClose(r, d))

\* The resolver on every upstream specification up to MaxUrlLen characters: a
\* request on the chained listener, up to the CONNECT head written to the
\* upstream.
InitParse ==
  /\ proxyURL \in Strings(MaxUrlLen)
  /\ InitRequests({1})

NextParse ==
  \E r \in ReqIds :
    \/ Accept(r) \/ ProxyRouter(r) \/ ProxyParse(r) \/ ProxyDial(r) \/ ProxySend(r)

SpecParse == InitParse /\ [][NextParse]_vars

\* Two CONNECT requests on the chained listener at the same time, through an
\* upstream with credentials.
InitPair ==
  /\ proxyURL = <<"a", ":", "b", "@", "h", ":", "a">>
  /\ InitRequests({1, 2})

NextPair ==
  \E r \in ReqIds :
    \/ AcceptChained(r) \/ ProxyRouter(r) \/ ProxyParse(r) \/ ProxyDial(r)
    \/ ProxySend(r) \/ ProxyRead(r) \/ ProxyWriteOK(r) \/ ProxyHijack(r)
    \/ ProxyGo1(r) \/ ProxyGo2(r)
    \/ TransferCopy(r, "c2o") \/ TransferCopy(r, "o2c")
    \/ TransferEnd(r, "c2o") \/ TransferEnd(r, "o2c")
    \/ TransferClose(r, "c2o") \/ TransferClose(r, "o2c")
    \/ ClientSend(r) \/ OutSend(r) \/ UpstreamRespond(r)
    \/ ClientClose(r) \/ OutClose(r)

SpecPair == InitPair /\ [][NextPair]_vars

\* ------------------------------------------------------------------ claims
IsPrefix(a, b) == Len(a) <= Len(b) /\ a = SubSeq(b, 1, Len(a))

\* What the client, and the outbound peer, have written into the tunnel so far.
ClientWritten(r) == [i \in 1..c2o[r].sent |-> ClientByte(r, i)]
OutWritten(r) == [i \in 1..o2c[r].sent |-> OutByte(r, i)]

NoRelay(r) == wk[r].c2o = "none" /\ wk[r].o2c = "none"
RelayEnded(r) == wk[r].c2o = "done" /\ wk[r].o2c = "done"
BothClosed(r) == clientConn[r] = "closed" /\ outConn[r] = "closed"

\* C1: in an established tunnel the outbound peer sees what the client wrote,
\* and the client what the outbound peer wrote, byte for byte and in order:
\* what has arrived is at every moment a prefix of what was written, also for
\* bytes written right behind the CONNECT head or behind the upstream's answer.
C1_ByteExactRelay ==
  \A r \in ReqIds :
    hijack[r] = "ok" =>
      /\ IsPrefix(c2o[r].seen, ClientWritten(r))
      /\ IsPrefix(o2c[r].seen, OutWritten(r))

Ats(s) == {i \in 1..Len(s) : s[i] = "@"}
Last(S) == CHOOSE i \in S : \A j \in S : j <= i

\* C3 as claimed: parseProxyURL splits on the last "@": the address is what
\* follows it and the credentials are all that precedes it; without an "@"
\* the address is the whole string and the credentials are empty.
C3_SplitsOnLastAt ==
  \A r \in ReqIds :
    parsed[r].err # "none" =>
      IF Ats(proxyURL) = {}
      THEN parsed[r].server = proxyURL /\ parsed[r].user = <<>>
      ELSE /\ parsed[r].server =
                SubSeq(proxyURL, Last(Ats(proxyURL)) + 1, Len(proxyURL))
           /\ parsed[r].user = SubSeq(proxyURL, 1, Last(Ats(proxyURL)) - 1)

\* C3 amended: with exactly one "@" the address is what follows it and the
\* credentials what precedes it; without an "@" the address is the whole string
\* and the credentials are empty; with two or more "@" both are empty.
C3_SplitsOnSingleAt ==
  \A r \in ReqIds :
    parsed[r].err # "none" =>
      IF Ats(proxyURL) = {}
      THEN parsed[r].server = proxyURL /\ parsed[r].user = <<>>
      ELSE IF Cardinality(Ats(proxyURL)) = 1
      THEN /\ parsed[r].server =
                SubSeq(proxyURL, Last(Ats(proxyURL)) + 1, Len(proxyURL))
           /\ parsed[r].user = SubSeq(proxyURL, 1, Last(Ats(proxyURL)) - 1)
      ELSE parsed[r].server = <<>> /\ parsed[r].user = <<>>

\* C3 witness: "a:a@a:a" resolved to the address "a:a" and the credentials "a:a".
C3_Witness ==
  \E r \in ReqIds :
    /\ proxyURL = <<"a", ":", "a", "@", "a", ":", "a">>
    /\ parsed[r].err = "nil"
    /\ parsed[r].server = <<"a", ":", "a">>
    /\ parsed[r].user = <<"a", ":", "a">>

\* A specification the spec calls malformed: more than one "@", or nothing
\* behind the last "@".
Malformed(s) ==
  \/ Cardinality(Ats(s)) > 1
  \/ s = <<>>
  \/ Ats(s) # {} /\ Last(Ats(s)) = Len(s)

\* C4: for a malformed upstream specification parseProxyURL returns an error,
\* and the chained handler answers 5xx without a dial and without a relay.
C4_MalformedSpecIsParseError ==
  \A r \in ReqIds :
    (parsed[r].err # "none" /\ Malformed(proxyURL)) =>
      /\ parsed[r].err = "err"
      /\ dials[r] = 0
      /\ NoRelay(r)
      /\ pc[r] = "done" => w[r].status \in 500..599

\* The value of a base64 character, and the bytes a base64 text stands for.
B64Value(c) == (CHOOSE i \in 1..64 : B64[i] = c) - 1
RECURSIVE Base64Decode(_)
Base64Decode(t) ==
  IF Len(t) < 4 THEN <<>>
  ELSE LET v1 == B64Value(t[1])
           v2 == B64Value(t[2])
           rest == Base64Decode(SubSeq(t, 5, Len(t)))
       IN  IF t[3] = "=" THEN << v1 * 4 + (v2 \div 16) >>
           ELSE IF t[4] = "="
           THEN << v1 * 4 + (v2 \div 16),
                   (v2 % 16) * 16 + (B64Value(t[3]) \div 4) >>
           ELSE << v1 * 4 + (v2 \div 16),
                   (v2 % 16) * 16 + (B64Value(t[3]) \div 4),
                   (B64Value(t[3]) % 4) * 64 + B64Value(t[4]) >> \o rest

Bytes(s) == [i \in 1..Len(s) |-> Byte(s[i])]
AuthLines(head) == {i \in 1..Len(head) : head[i].name = "Proxy-Authorization"}

\* C5: the CONNECT head the upstream receives holds one line
\* "Proxy-Authorization: Basic <base64 of the credentials>" when the resolved
\* credentials are not empty, and no Proxy-Authorization line when they are.
C5_AuthorizationIffCredentials ==
  \A r \in ReqIds :
    upReq[r] # <<>> =>
      IF parsed[r].user # <<>>
      THEN /\ Cardinality(AuthLines(upReq[r])) = 1
           /\ \A i \in AuthLines(upReq[r]) :
                /\ upReq[r][i].scheme = "Basic"
                /\ Len(upReq[r][i].value) % 4 = 0
                /\ Base64Decode(upReq[r][i].value) = Bytes(parsed[r].user)
      ELSE AuthLines(upReq[r]) = {}

\* C5 witness: the credentials "a:a" sent as "Basic YTph".
C5_Witness ==
  \E r \in ReqIds :
    /\ parsed[r].user = <<"a", ":", "a">>
    /\ Len(upReq[r]) = 4
    /\ upReq[r][3] = [name |-> "Proxy-Authorization", scheme |-> "Basic",
                      value |-> <<"Y", "T", "p", "h">>]

C7_DialFailureIs503 ==
  \A r \in ReqIds :
    /\ dials[r] <= 1
    /\ dialErr[r] = "err" =>
         /\ dials[r] = 1
         /\ pc[r] = "done"
         /\ w[r].status = 503
         /\ \A i \in 1..Len(w[r].calls) : w[r].calls[i] # 200
         /\ hijack[r] = "none"
         /\ clientConn[r] = "server"
         /\ NoRelay(r)

\* C7 witness: a direct dial has failed and the client has its 503.
C7_Witness ==
  \E r \in ReqIds :
    /\ handledBy[r] = {"handleDirectTunneling"}
    /\ dialErr[r] = "err"
    /\ w[r].status = 503

\* C8: when the client connection cannot be hijacked (no Hijacker, or Hijack
\* fails) the client gets 500 and no relay starts.
C8_HijackFailureIs500 ==
  \A r \in ReqIds :
    hijack[r] \in {"unsupported", "failed"} =>
      /\ w[r].status = 500
      /\ NoRelay(r)

\* C9: a CONNECT request is answered 200 exactly when the tunnel succeeded
\* (outbound leg up, connection hijacked, both transfers started), and with an
\* error status otherwise.
C9_OKIffTunnel ==
  \A r \in ReqIds :
    (pc[r] = "done" /\ req[r].method = "CONNECT") =>
      /\ w[r].status = 200 <=>
           (dialErr[r] = "nil" /\ hijack[r] = "ok" /\
            wk[r].c2o # "none" /\ wk[r].o2c # "none")
      /\ w[r].status # 200 => w[r].status \in 400..599

\* The handler a request belongs to by its listener and method, and the
\* positions inside each handler.
Expected(q) ==
  CASE q.endpoint = "direct" /\ q.method = "CONNECT" -> "handleDirectTunneling"
    [] q.endpoint = "direct" /\ q.method # "CONNECT" -> "handleDirectHTTP"
    [] q.endpoint = "proxy" /\ q.method = "CONNECT" -> "handleProxyTunneling"
    [] q.endpoint = "proxy" /\ q.method # "CONNECT" -> "handleProxyHTTP"
Positions(h) ==
  CASE h = "handleDirectTunneling" ->
         {"d_dial", "d_ok", "d_hijack", "d_go1", "d_go2", "done"}
    [] h = "handleProxyTunneling" ->
         {"p_parse", "p_dial", "p_send", "p_read", "p_ok", "p_hijack", "p_go1",
          "p_go2", "done"}
    [] h = "handleDirectHTTP" -> {"d_forward", "done"}
    [] h = "handleProxyHTTP" -> {"p_forward", "done"}

\* C10: a routed request is handled by exactly one handler, the one of its
\* listener and method: CONNECT by the tunnel handler of its mode, any other
\* method by the forward handler of its mode.
C10_DispatchByMethodAndMode ==
  \A r \in ReqIds :
    IF pc[r] \in {"idle", "route"}
    THEN handledBy[r] = {}
    ELSE /\ handledBy[r] = {Expected(req[r])}
         /\ pc[r] \in Positions(Expected(req[r]))

\* C10 witness: a CONNECT on the direct listener is in the direct tunnel handler.
C10_Witness ==
  \E r \in ReqIds :
    /\ req[r].endpoint = "direct" /\ req[r].method = "CONNECT"
    /\ handledBy[r] = {"handleDirectTunneling"}
    /\ pc[r] = "d_dial"

\* C11: two chained tunnels at the same time do not interfere.  What the
\* destination of a tunnel has received, and what its client has received, are
\* bytes written into that tunnel and no other, and a socket of a request is
\* closed by a relay worker of that request only.
Range(f) == {f[i] : i \in DOMAIN f}

C11_SessionsDoNotInterfere ==
  \A r \in reqs :
    /\ Range(c2o[r].seen) \subseteq Range(ClientWritten(r))
    /\ Range(o2c[r].seen) \subseteq Range(OutWritten(r))
    /\ Range(c2o[r].inb) \cup Range(c2o[r].bufr) \subseteq Range(ClientWritten(r))
    /\ Range(o2c[r].inb) \cup Range(o2c[r].bufr) \subseteq Range(OutWritten(r))
    /\ (clientConn[r] = "closed" \/ outConn[r] = "closed")
         => \E d \in Dirs : wk[r][d] \in {"closing", "done"}

\* Both tunnels are relaying and each has delivered a byte in each direction.
C11_Witness ==
  /\ reqs = {1, 2}
  /\ \A r \in reqs :
       /\ handledBy[r] = {"handleProxyTunneling"}
       /\ wk[r] = [c2o |-> "copy", o2c |-> "copy"]
       /\ c2o[r].seen # <<>>
       /\ o2c[r].seen # <<>>

\* C12: a CONNECT request that opened an outbound connection and started no
\* relay (upstream status other than 200, unreadable answer, no Hijacker, failed
\* Hijack) has closed the outbound connection when its handler returns.
Tunnelling(r) ==
  handledBy[r] \in {{"handleProxyTunneling"}, {"handleDirectTunneling"}}

C12_OutboundClosedWithoutRelay ==
  \A r \in ReqIds :
    (Tunnelling(r) /\ pc[r] = "done" /\ outConn[r] # "none" /\ NoRelay(r))
      => outConn[r] = "closed"

\* C13: a tunnel request moves only Pending -> Dialing -> Established ->
\* Relaying -> Closed, or Dialing -> Closed on a failure; Closed is left by no
\* step, no state is entered again, a request dials at most once, and a request
\* that failed is never Established.
PhaseOf(pcv, hjv, wkv) ==
  IF pcv \in {"idle", "route", "p_parse"} THEN "Pending"
  ELSE IF \E d \in Dirs : wkv[d] \in {"closing", "done"} THEN "Closed"
  ELSE IF \E d \in Dirs : wkv[d] = "copy" THEN "Relaying"
  ELSE IF hjv = "ok" THEN "Established"
  ELSE IF pcv = "done" THEN "Closed"
  ELSE "Dialing"

Phase(r) == PhaseOf(pc[r], hijack[r], wk[r])

Transitions ==
  { <<"Pending", "Dialing">>, <<"Dialing", "Established">>,
    <<"Dialing", "Closed">>, <<"Established", "Relaying">>,
    <<"Relaying", "Closed">> }

Failed(r) ==
  \/ dialErr[r] = "err"
  \/ resp[r].kind = "err"
  \/ resp[r].kind = "status" /\ resp[r].code # 200
  \/ hijack[r] \in {"unsupported", "failed"}

C13_TunnelStateMachine ==
  [][\A r \in ReqIds :
       req'[r].method = "CONNECT" =>
         /\ Phase(r)' = Phase(r) \/ <<Phase(r), Phase(r)'>> \in Transitions
         /\ dials'[r] <= 1
         /\ Failed(r)' => /\ Phase(r) \in {"Dialing", "Closed"}
                          /\ Phase(r)' = "Closed"]_vars

\* A tunnel that went through all five states.
C13_Witness ==
  \E r \in ReqIds :
    /\ req[r].method = "CONNECT" /\ dials[r] = 1
    /\ hijack[r] = "ok" /\ RelayEnded(r) /\ Phase(r) = "Closed"

\* C14: a request whose handler has hijacked the client connection and returned
\* has started one relay worker per direction, a request that did not get that
\* far has started none, and the two workers write to different sockets.
WriteSocket(d) == IF d = "c2o" THEN "outConn" ELSE "clientConn"

Started(r) == {d \in Dirs : wk[r][d] # "none"}

C14_TwoWorkersOnePerDirection ==
  \A r \in ReqIds :
    /\ (pc[r] = "done" /\ hijack[r] = "ok") => Started(r) = Dirs
    /\ hijack[r] # "ok" => Started(r) = {}
    /\ \A d, e \in Started(r) : WriteSocket(d) = WriteSocket(e) => d = e

\* A chained tunnel with both workers copying.
C14_Witness ==
  \E r \in ReqIds :
    /\ handledBy[r] = {"handleProxyTunneling"}
    /\ pc[r] = "done" /\ hijack[r] = "ok"
    /\ wk[r].c2o = "copy" /\ wk[r].o2c = "copy"

\* C15: in chained mode each event of a successful tunnel has the one before
\* it behind it: the CONNECT head is sent on an opened upstream connection and
\* names the host the client asked for, an answer is read only behind the head,
\* 200 is written to the client only when the upstream answered 200, the
\* connection is hijacked only behind that 200, and a relay worker runs only
\* behind the hijack.
Has200(r) == \E i \in DOMAIN w[r].calls : w[r].calls[i] = 200

C15_ChainedOrder ==
  \A r \in ReqIds :
    handledBy[r] = {"handleProxyTunneling"} =>
      /\ outConn[r] # "none" => dials[r] = 1 /\ dialErr[r] = "nil"
      /\ upReq[r] # <<>> =>
           /\ outConn[r] # "none"
           /\ upReq[r][1] = [name |-> "CONNECT", scheme |-> "HTTP/1.1",
                             value |-> req[r].host]
      /\ resp[r].kind = "status" => upReq[r] # <<>> /\ resp[r] = upResp[r]
      /\ Has200(r) => resp[r] = [kind |-> "status", code |-> 200]
      /\ hijack[r] = "ok" => w[r].calls = <<200>>
      /\ ~NoRelay(r) => hijack[r] = "ok"

\* A chained tunnel with every event behind it.
C15_Witness ==
  \E r \in ReqIds :
    /\ handledBy[r] = {"handleProxyTunneling"}
    /\ upReq[r] # <<>> /\ upReq[r][1].value = req[r].host
    /\ upResp[r] = [kind |-> "status", code |-> 200]
    /\ w[r].status = 200 /\ hijack[r] = "ok"
    /\ pc[r] = "done" /\ ~NoRelay(r)

\* C16: once the client connection of a request is hijacked, no step writes to
\* its ResponseWriter again; a relay that ends, on an error or at the end of a
\* stream, shows only as its sockets closed: a transfer that has returned has
\* closed both of them.
C16_NoResponseAfterHijack ==
  /\ [][\A r \in ReqIds : hijack[r] = "ok" => w'[r] = w[r]]_vars
  /\ [](\A r \in ReqIds :
          (\E d \in Dirs : wk[r][d] = "done") =>
            /\ BothClosed(r)
            /\ w[r] = [status |-> 200, calls |-> <<200>>])

\* A tunnel whose client went away: a byte of the outbound peer was written to
\* the closed client socket, and both transfers have returned.
C16_Witness ==
  \E r \in ReqIds :
    /\ hijack[r] = "ok" /\ cPeer[r] = "closed"
    /\ o2c[r].inb = <<>>
    /\ o2c[r].sent > Len(o2c[r].seen) + Len(o2c[r].bufr)
    /\ RelayEnded(r) /\ BothClosed(r)
    /\ w[r].calls = <<200>>

\* C17: no step changes the upstream specification; requests that are served
\* at the same time resolve it to the same address and credentials; and a
\* resolution changes nothing but the result the resolving handler holds and
\* that handler's position.
C17_UpstreamSpecReadOnly ==
  /\ [][proxyURL' = proxyURL]_vars
  /\ [](\A r, q \in reqs :
          (parsed[r] # NoParse /\ parsed[q] # NoParse) => parsed[r] = parsed[q])
  /\ [][\A r \in ReqIds :
          parsed'[r] # parsed[r] =>
            /\ parsed'[r] = parseProxyURL(proxyURL)
            /\ UNCHANGED <<proxyURL, reqs, req, handledBy, dials, dialErr,
                           hijack, resp, connVars, peerVars, streamVars, wk>>
            /\ \A q \in ReqIds \ {r} :
                 parsed'[q] = parsed[q] /\ pc'[q] = pc[q] /\ w'[q] = w[q]]_vars

\* Two chained requests in flight, both resolved to the same address and
\* credentials.
C17_Witness ==
  /\ reqs = {1, 2}
  /\ \A r \in reqs :
       /\ pc[r] \notin {"idle", "route", "p_parse", "done"}
       /\ parsed[r] = [server |-> <<"h", ":", "a">>,
                       user |-> <<"a", ":", "b">>, err |-> "nil"]

\* C18: a CONNECT handler writes at most one status per request: no path calls
\* WriteHeader, directly or through http.Error, behind an earlier call.
C18_AtMostOneStatusWritten ==
  \A r \in ReqIds : Tunnelling(r) => Len(w[r].calls) <= 1

\* C19: in chained mode, when the upstream's answer to the CONNECT head cannot
\* be read (the upstream closed, answered something that is no HTTP response,
\* or never got the head), the client is answered 503, no 200 is written and no
\* relay worker is started.
Unreadable(r) ==
  /\ handledBy[r] = {"handleProxyTunneling"}
  /\ dialErr[r] = "nil"
  /\ pc[r] \notin {"p_send", "p_read"}
  /\ upResp[r].kind # "status"

C19_UnreadableAnswerIs503 ==
  \A r \in ReqIds :
    Unreadable(r) =>
      /\ pc[r] = "done"
      /\ resp[r].kind = "err"
      /\ w[r] = [status |-> 503, calls |-> <<503>>]
      /\ hijack[r] = "none"
      /\ NoRelay(r)

\* An upstream that answered bytes that are no HTTP response, and the client
\* answered 503.
C19_Witness ==
  \E r \in ReqIds :
    Unreadable(r) /\ upResp[r].kind = "garbage" /\ w[r].status = 503

\* C20: every CONNECT request that has been accepted leads to its handler
\* returning, with an error status written or the relay pair started, whatever
\* the outbound peer does.
C20_EveryConnectTerminates ==
  \A r \in ReqIds :
    (pc[r] = "route" /\ req[r].method = "CONNECT") ~> (pc[r] = "done")

====
